---------------------------- MODULE Spec2Model ----------------------------
(***************************************************************************)
(* Model of the listing/product matching engine (match.py, classes.py).    *)
(*                                                                         *)
(* Strings are sequences of one-character strings; offsets into a string   *)
(* are 0-based as in Python (the character at offset p is s[p + 1]).       *)
(***************************************************************************)
EXTENDS Integers, Sequences, FiniteSets, TLC

(***************************************************************************)
(* Characters and the classes the regular expressions use (flags=re.U).    *)
(***************************************************************************)
Digits == {"0", "1", "2", "3", "4", "5", "6", "7", "8", "9"}

LowerSeq ==
    << "a", "b", "c", "d", "e", "f", "g", "h", "i", "j", "k", "l", "m",
       "n", "o", "p", "q", "r", "s", "t", "u", "v", "w", "x", "y", "z" >>

UpperSeq ==
    << "A", "B", "C", "D", "E", "F", "G", "H", "I", "J", "K", "L", "M",
       "N", "O", "P", "Q", "R", "S", "T", "U", "V", "W", "X", "Y", "Z" >>

LowerLetters == {LowerSeq[i] : i \in 1..Len(LowerSeq)}

UpperLetters == {UpperSeq[i] : i \in 1..Len(UpperSeq)}

\* "u:" stands for the single character u-umlaut of the break word.
NonAsciiLetters == {"u:"}

Whitespace == {" ", "\t", "\n"}

IsDigit(c) == c \in Digits

\* [^\W\d_] : a unicode letter
IsLetter(c) == c \in LowerLetters \cup UpperLetters \cup NonAsciiLetters

\* \w
IsWordChar(c) == IsLetter(c) \/ IsDigit(c) \/ c = "_"

\* \s
IsSpace(c) == c \in Whitespace

\* re.escape (Python 2) leaves exactly the ASCII letters and digits alone.
IsAsciiAlnum(c) == c \in LowerLetters \cup UpperLetters \cup Digits

\* unicode.lower() on one character
LowerChar(c) ==
    IF c \in UpperLetters
    THEN LowerSeq[CHOOSE i \in 1..Len(UpperSeq) : UpperSeq[i] = c]
    ELSE c

Lower(s) == [i \in 1..Len(s) |-> LowerChar(s[i])]

(***************************************************************************)
(* String helpers.                                                         *)
(***************************************************************************)
Min(S) == CHOOSE x \in S : \A y \in S : x <= y

Max(S) == CHOOSE x \in S : \A y \in S : x >= y

\* s[a:b] with Python's clamping, a and b 0-based offsets, 0 <= a
Slice(s, a, b) ==
    LET hi == IF b > Len(s) THEN Len(s) ELSE b
    IN  IF a >= hi THEN << >> ELSE SubSeq(s, a + 1, hi)

\* w occurs in s at offset p
OccursAt(w, s, p) ==
    /\ p >= 0
    /\ p + Len(w) <= Len(s)
    /\ \A k \in 1..Len(w) : s[p + k] = w[k]

\* Python's  w in s
Contains(w, s) == \E p \in 0..(Len(s) - Len(w)) : OccursAt(w, s, p)

\* \b at offset p of s
IsBoundary(s, p) ==
    LET before == p >= 1 /\ p <= Len(s) /\ IsWordChar(s[p])
        after  == p >= 0 /\ p < Len(s) /\ IsWordChar(s[p + 1])
    IN  before # after

RECURSIVE SplitOn(_, _, _)
\* The maximal runs of s that hold no character of seps, as str.split() and
\* the filtered re.split give them; cur is the run being read.
SplitOn(s, seps, cur) ==
    IF s = << >>
    THEN IF cur = << >> THEN << >> ELSE << cur >>
    ELSE IF Head(s) \in seps
         THEN (IF cur = << >> THEN << >> ELSE << cur >>)
              \o SplitOn(Tail(s), seps, << >>)
         ELSE SplitOn(Tail(s), seps, Append(cur, Head(s)))

\* str.split()
SplitWhitespace(s) == SplitOn(s, Whitespace, << >>)

RECURSIVE JoinSpace(_)
\* ' '.join(words)
JoinSpace(words) ==
    IF words = << >> THEN << >>
    ELSE IF Len(words) = 1 THEN words[1]
    ELSE words[1] \o << " " >> \o JoinSpace(Tail(words))

\* str.replace(c, by) for a single character c and a string by
ReplaceChar(s, c, by) ==
    LET RECURSIVE R(_)
        R(t) == IF t = << >> THEN << >>
                ELSE (IF Head(t) = c THEN by ELSE << Head(t) >>) \o R(Tail(t))
    IN  R(s)

(***************************************************************************)
(* Listing.make_searchable_title                                           *)
(***************************************************************************)
TitleLimit == 50

\* The break words of _break_words, in the order the loop visits them.
BreakWords ==
    << << "f", "o", "r" >>, << "p", "o", "u", "r" >>, << "f", "u:", "r" >> >>

\* offset of the ')' that closes r'\(.*?\)' opened at offset p, or -1
CloseOf(s, p) ==
    LET cands == {q \in (p + 1)..(Len(s) - 1) :
                     /\ s[q + 1] = ")"
                     /\ \A k \in (p + 1)..(q - 1) : s[k + 1] # "\n"}
    IN  IF cands = {} THEN -1 ELSE Min(cands)

RECURSIVE BlankFrom(_, _)
\* re.sub(r'\(.*?\)', lambda m: ' '*len(m.group()), s) scanning from offset p
BlankFrom(s, p) ==
    IF p >= Len(s) THEN s
    ELSE IF s[p + 1] = "(" /\ CloseOf(s, p) # -1
         THEN LET q == CloseOf(s, p)
              IN  BlankFrom([k \in 1..Len(s) |->
                                IF k - 1 >= p /\ k - 1 <= q THEN " " ELSE s[k]],
                            q + 1)
         ELSE BlankFrom(s, p + 1)

BlankParens(s) == BlankFrom(s, 0)

\* start offset of the first match of r'\b' + w + r'\b' in s, or -1
SearchWord(w, s) ==
    LET hits == {p \in 0..(Len(s) - Len(w)) :
                    /\ OccursAt(w, s, p)
                    /\ IsBoundary(s, p)
                    /\ IsBoundary(s, p + Len(w))}
    IN  IF hits = {} THEN -1 ELSE Min(hits)

\* a slip of line 80: the cut after the break word, at m.end()
CutAfterWord(s, w) ==
    IF SearchWord(w, s) # -1 THEN Slice(s, 0, SearchWord(w, s) + Len(w)) ELSE s

\* one turn of the loop over _break_words
CutAtWord(s, w) ==
    IF SearchWord(w, s) # -1 THEN Slice(s, 0, SearchWord(w, s)) ELSE s

\* a slip of lines 77-80: only the first of the break words looked for
CutAtFirstBreakWord(s) == CutAtWord(s, BreakWords[1])

CutAtBreakWords(s) ==
    CutAtWord(CutAtWord(CutAtWord(s, BreakWords[1]), BreakWords[2]), BreakWords[3])

make_searchable_title(title) ==
    Slice(CutAtBreakWords(BlankParens(title)), 0, TitleLimit)

(***************************************************************************)
(* Regular expressions.  A pattern's source is a string, rewritten as the  *)
(* code rewrites it; Compile reads the source as re.compile does for the   *)
(* constructs these sources hold, and MatchAt is the backtracking match.   *)
(***************************************************************************)
BS == "\\"

\* re.escape (Python 2): a backslash before every character that is not an
\* ASCII letter or digit
re_escape(s) ==
    LET RECURSIVE E(_)
        E(t) == IF t = << >> THEN << >>
                ELSE (IF IsAsciiAlnum(Head(t)) THEN << Head(t) >>
                      ELSE << BS, Head(t) >>) \o E(Tail(t))
    IN  E(s)

RECURSIVE SubWholeWord(_, _, _)
\* re.sub(r'\b' + re.escape(w) + r'\b', r'(?:' + re.escape(w) + r')?', text)
\* from offset p on: the pattern matches the text w itself between two \b
SubWholeWord(text, w, p) ==
    IF p > Len(text) - Len(w) THEN Slice(text, p, Len(text))
    ELSE IF /\ OccursAt(w, text, p)
            /\ IsBoundary(text, p)
            /\ IsBoundary(text, p + Len(w))
         THEN << "(", "?", ":" >> \o re_escape(w) \o << ")", "?" >>
              \o SubWholeWord(text, w, p + Len(w))
         ELSE << text[p + 1] >> \o SubWholeWord(text, w, p + 1)

\* a slip of line 156: the escaped character kept as it is
SubEscapedNonWordKept(text, p) == Slice(text, p, Len(text))

RECURSIVE SubEscapedNonWord(_, _)
\* re.sub(r'\\\W', r'\W*', text) from offset p on
SubEscapedNonWord(text, p) ==
    IF p >= Len(text) THEN << >>
    ELSE IF /\ text[p + 1] = BS
            /\ p + 1 < Len(text)
            /\ ~IsWordChar(text[p + 2])
         THEN << BS, "W", "*" >> \o SubEscapedNonWord(text, p + 2)
         ELSE << text[p + 1] >> \o SubEscapedNonWord(text, p + 1)

\* a slip of line 163: no punctuation or white-space allowed between a
\* letter and a digit
SubLetterDigitStrict(text, p) == Slice(text, p, Len(text))

RECURSIVE SubLetterDigit(_, _)
\* re.sub(r'([^\W\d_])(\d)', r'\1\W*\2', text) from offset p on
SubLetterDigit(text, p) ==
    IF p >= Len(text) THEN << >>
    ELSE IF /\ IsLetter(text[p + 1])
            /\ p + 1 < Len(text)
            /\ IsDigit(text[p + 2])
         THEN << text[p + 1], BS, "W", "*", text[p + 2] >>
              \o SubLetterDigit(text, p + 2)
         ELSE << text[p + 1] >> \o SubLetterDigit(text, p + 1)

RECURSIVE SubDigitLetter(_, _)
\* re.sub(r'(\d)([^\W\d_])', r'\1\W*\2', text) from offset p on
SubDigitLetter(text, p) ==
    IF p >= Len(text) THEN << >>
    ELSE IF /\ IsDigit(text[p + 1])
            /\ p + 1 < Len(text)
            /\ IsLetter(text[p + 2])
         THEN << text[p + 1], BS, "W", "*", text[p + 2] >>
              \o SubDigitLetter(text, p + 2)
         ELSE << text[p + 1] >> \o SubDigitLetter(text, p + 1)

RECURSIVE MarkIgnorable(_, _)
\* the loop  for s in ignorable  (the result does not depend on the order:
\* a segment holds no dash or whitespace, so it can only match a whole word
\* of the escaped model, and no whole word of an inserted group but itself)
MarkIgnorable(text, ignorable) ==
    IF ignorable = {} THEN text
    ELSE LET w == CHOOSE x \in ignorable : TRUE
         IN  MarkIgnorable(SubWholeWord(text, w, 0), ignorable \ {w})

\* Product._convert_model_to_regex_string; optional_prefix None is << >>
convert_model_to_regex_string(model, ignorable, optional_prefix) ==
    LET m1 == MarkIgnorable(re_escape(model), ignorable)
        m2 == IF optional_prefix # << >>
              THEN << "(", "?", ":" >> \o re_escape(optional_prefix)
                   \o << BS, "W", ")", "?" >> \o m1
              ELSE m1
        m3 == SubEscapedNonWord(m2, 0)
        m4 == SubLetterDigit(m3, 0)
        m5 == SubDigitLetter(m4, 0)
    IN  << BS, "b" >> \o m5
        \o << "(", "?", "=", BS, "D", "{", "0", ",", "3", "}", BS, "b", ")" >>

\* One element of a compiled pattern: k is its kind, c the character of a
\* literal, body the elements of a group.
Atom(k, c, body) == [k |-> k, c |-> c, body |-> body]

\* offset of the first ')' of src at or after offset p (the sources built
\* above hold no nested group and no unescaped ')' inside one), or -1
GroupEnd(src, p) ==
    LET cands == {q \in p..(Len(src) - 1) : src[q + 1] = ")"}
    IN  IF cands = {} THEN -1 ELSE Min(cands)

RECURSIVE CompileFrom(_, _, _)
\* re.compile: the elements of src from offset p up to offset e
CompileFrom(src, p, e) ==
    IF p >= e THEN << >>
    ELSE IF OccursAt(<< "(", "?", ":" >>, src, p) /\ GroupEnd(src, p) # -1
    THEN LET q == GroupEnd(src, p)
             body == CompileFrom(src, p + 3, q)
         IN  IF q + 1 < e /\ src[q + 2] = "?"
             THEN << Atom("opt", "", body) >> \o CompileFrom(src, q + 2, e)
             ELSE body \o CompileFrom(src, q + 1, e)
    ELSE IF OccursAt(<< "(", "?", "=" >>, src, p) /\ GroupEnd(src, p) # -1
    THEN LET q == GroupEnd(src, p)
         IN  << Atom("look", "", CompileFrom(src, p + 3, q)) >>
             \o CompileFrom(src, q + 1, e)
    ELSE IF OccursAt(<< BS, "W", "*" >>, src, p) /\ p + 3 <= e
    THEN << Atom("NWstar", "", << >>) >> \o CompileFrom(src, p + 3, e)
    ELSE IF OccursAt(<< BS, "W" >>, src, p) /\ p + 2 <= e
    THEN << Atom("NW", "", << >>) >> \o CompileFrom(src, p + 2, e)
    ELSE IF OccursAt(<< BS, "D", "{", "0", ",", "3", "}" >>, src, p) /\ p + 7 <= e
    THEN << Atom("ND03", "", << >>) >> \o CompileFrom(src, p + 7, e)
    ELSE IF OccursAt(<< BS, "b" >>, src, p) /\ p + 2 <= e
    THEN << Atom("b", "", << >>) >> \o CompileFrom(src, p + 2, e)
    ELSE IF src[p + 1] = BS /\ p + 2 <= e
    THEN << Atom("lit", src[p + 2], << >>) >> \o CompileFrom(src, p + 2, e)
    ELSE << Atom("lit", src[p + 1], << >>) >> \o CompileFrom(src, p + 1, e)

Compile(src) == CompileFrom(src, 0, Len(src))

\* the number of characters from offset p on that the class accepts, at most
\* cap; word is TRUE for \W (no word character) and FALSE for \D (no digit)
RunLength(s, p, cap, word) ==
    LET Stop(c) == IF word THEN IsWordChar(c) ELSE IsDigit(c)
        stops == {k \in 0..cap : p + k >= Len(s) \/ Stop(s[p + k + 1])}
    IN  IF stops = {} THEN cap ELSE Min(stops)

RECURSIVE MatchAt(_, _, _)
RECURSIVE MatchRepeat(_, _, _, _)
\* after a greedy repeat that may take up to k characters at offset p: the
\* end of the match of atoms with the longest repeat that lets it match
MatchRepeat(atoms, s, p, k) ==
    LET r == MatchAt(atoms, s, p + k)
    IN  IF r # -1 THEN r
        ELSE IF k = 0 THEN -1
        ELSE MatchRepeat(atoms, s, p, k - 1)

\* The end offset of the match of atoms that starts at offset p of s, as the
\* backtracking matcher finds it (greedy repeats, a group tried before its
\* absence), or -1 when there is none.
MatchAt(atoms, s, p) ==
    IF atoms = << >> THEN p
    ELSE LET a == Head(atoms)
             rest == Tail(atoms)
         IN  CASE a.k = "lit" ->
                    IF p < Len(s) /\ s[p + 1] = a.c
                    THEN MatchAt(rest, s, p + 1) ELSE -1
               [] a.k = "NW" ->
                    IF p < Len(s) /\ ~IsWordChar(s[p + 1])
                    THEN MatchAt(rest, s, p + 1) ELSE -1
               [] a.k = "b" ->
                    IF IsBoundary(s, p) THEN MatchAt(rest, s, p) ELSE -1
               [] a.k = "NWstar" ->
                    MatchRepeat(rest, s, p,
                        RunLength(s, p, Len(s), TRUE))
               [] a.k = "ND03" ->
                    MatchRepeat(rest, s, p,
                        RunLength(s, p, 3, FALSE))
               [] a.k = "opt" ->
                    LET r == MatchAt(a.body \o rest, s, p)
                    IN  IF r # -1 THEN r ELSE MatchAt(rest, s, p)
               [] a.k = "look" ->
                    IF MatchAt(a.body, s, p) # -1
                    THEN MatchAt(rest, s, p) ELSE -1

RECURSIVE SearchFrom(_, _, _)
\* the scan of regex.search(s) from start offset p on
SearchFrom(atoms, s, p) ==
    IF p > Len(s) THEN << -1, -1 >>
    ELSE LET e == MatchAt(atoms, s, p)
         IN  IF e # -1 THEN << p, e >> ELSE SearchFrom(atoms, s, p + 1)

\* regex.search(s): << start, end >> of the leftmost match, or << -1, -1 >>
Search(atoms, s) == SearchFrom(atoms, s, 0)

\* _re_short_number.match(s) : r'^\s*\d{1,3}\s*$'
IsShortNumber(s) ==
    \E a \in 0..Len(s) : \E d \in 1..3 :
        /\ a + d <= Len(s)
        /\ \A k \in 1..a : IsSpace(s[k])
        /\ \A k \in (a + 1)..(a + d) : IsDigit(s[k])
        /\ \A k \in (a + d + 1)..Len(s) : IsSpace(s[k])

\* _re_word_like.match(s) : r'^[^\W\d_]{3,}$'
IsWordLike(s) ==
    \E n \in {Len(s), Len(s) - 1} :
        /\ n >= 3
        /\ \A k \in 1..n : IsLetter(s[k])
        /\ n < Len(s) => s[Len(s)] = "\n"

(***************************************************************************)
(* ProductMatch, Matcher and Product.                                      *)
(*                                                                         *)
(* A product's family is a string, None being << >>: the code only tests   *)
(* it for truth, and None and '' are both false.                           *)
(***************************************************************************)
\* ProductMatch(product, listing, begin, length); the listing is the one at
\* hand
ProductMatch(product, begin, length) ==
    [product |-> product, begin |-> begin, length |-> length]

\* Matcher(regex, required)
Matcher(regex, required) == [re |-> Compile(regex), required |-> required]

\* a slip of lines 37-41: the test of line 40 left out
SanityCheckAnyLength(searchable_title, begin, length, model, family) ==
    ~(/\ IsShortNumber(Slice(searchable_title, begin, begin + length))
      /\ ~(IsShortNumber(model) /\ family = << >>))

\* ProductMatch.sanity_check: TRUE when the match is returned, FALSE when
\* None is
sanity_check(searchable_title, begin, length, model, family) ==
    IF /\ IsShortNumber(Slice(searchable_title, begin, begin + length))
       /\ ~(IsShortNumber(model) /\ family = << >>)
    THEN FALSE
    ELSE IF length < 2 THEN FALSE
    ELSE TRUE

\* Product._create_holistic_regex
create_holistic_regex(model, family, ignorable) ==
    Matcher(convert_model_to_regex_string(model, ignorable, family), TRUE)

\* a slip of line 198: the second pass still splitting on the underscore
TokensOfDashKept(model, family, replace_dash) ==
    (IF replace_dash
     THEN SplitOn(model, {"-", " ", "_"}, << >>)
     ELSE SplitOn(model, {" ", "_"}, << >>))
    \o (IF family # << >> THEN SplitWhitespace(family) ELSE << >>)

\* the token list of Product._create_token_regexes, empty tokens dropped
TokensOf(model, family, replace_dash) ==
    (IF replace_dash
     THEN SplitOn(model, {"-", " ", "_"}, << >>)
     ELSE SplitWhitespace(model))
    \o (IF family # << >> THEN SplitWhitespace(family) ELSE << >>)

\* re.match(r'^\D+$', model)
HasNoDigit(model) ==
    /\ model # << >>
    /\ \A k \in 1..Len(model) : ~IsDigit(model[k])

\* the `required` flag the last loop of _create_token_regexes gives tok
TokenRequired(tok, model, family, ignorable) ==
    IF tok \in ignorable \/ (family # << >> /\ Contains(tok, family))
    THEN FALSE
    ELSE IF ~HasNoDigit(model) /\ IsWordLike(tok) THEN FALSE
    ELSE TRUE

\* whether the scan of a dash-split token list asks for the second pass
NeedsRetokenize(tokens) ==
    \E k \in 1..Len(tokens) : Len(tokens[k]) < 3 \/ IsShortNumber(tokens[k])

RECURSIVE create_token_regexes(_, _, _, _)
\* Product._create_token_regexes: the list left in _token_matchers
create_token_regexes(model, family, ignorable, replace_dash) ==
    LET tokens == TokensOf(model, family, replace_dash)
    IN  IF Len(tokens) = 1 THEN << >>
        ELSE IF replace_dash /\ NeedsRetokenize(tokens)
        THEN create_token_regexes(model, family, ignorable, FALSE)
        ELSE [k \in 1..Len(tokens) |->
                Matcher(convert_model_to_regex_string(tokens[k], {}, << >>),
                        TokenRequired(tokens[k], model, family, ignorable))]

RECURSIVE TokenScanRequiredOnly(_, _, _, _)
\* a slip of lines 273-280: the hit of a token that is not required left out
\* of amount_matched and mstart
TokenScanRequiredOnly(matchers, title, k, acc) ==
    IF k > Len(matchers) THEN acc
    ELSE LET span == Search(matchers[k].re, title)
             mlength == span[2] - span[1]
         IN  IF span[1] # -1
             THEN TokenScanRequiredOnly(matchers, title, k + 1,
                     IF mlength # 0 /\ matchers[k].required
                     THEN [acc EXCEPT !.amount = @ + mlength,
                                      !.mstart = IF span[1] < @ THEN span[1] ELSE @]
                     ELSE acc)
             ELSE IF matchers[k].required
             THEN [acc EXCEPT !.still = FALSE]
             ELSE TokenScanRequiredOnly(matchers, title, k + 1, acc)

RECURSIVE TokenScan(_, _, _, _)
\* the loop over _token_matchers of Product.match_listing from matcher k on;
\* acc holds amount_matched, mstart and still_matching
TokenScan(matchers, title, k, acc) ==
    IF k > Len(matchers) THEN acc
    ELSE LET span == Search(matchers[k].re, title)
             mlength == span[2] - span[1]
         IN  IF span[1] # -1
             THEN TokenScan(matchers, title, k + 1,
                     IF mlength # 0
                     THEN [acc EXCEPT !.amount = @ + mlength,
                                      !.mstart = IF span[1] < @ THEN span[1] ELSE @]
                     ELSE acc)
             ELSE IF matchers[k].required
             THEN [acc EXCEPT !.still = FALSE]
             ELSE TokenScan(matchers, title, k + 1, acc)

\* the candidate of the first step of Product.match_listing (the holistic
\* pattern and its sanity check): a list of no or one ProductMatch
HolisticMatch(P, id, title) ==
    LET span == Search(P.matcher.re, title)
    IN  IF /\ span[1] # -1
           /\ sanity_check(title, span[1], span[2] - span[1], P.model, P.family)
        THEN << ProductMatch(id, span[1], span[2] - span[1]) >>
        ELSE << >>

\* lines 268-286: the ProductMatch the token fallback builds when
\* still_matching is left true, in a list; the empty list when it is not
TokenCandidate(P, id, title) ==
    LET acc == TokenScan(P.token_matchers, title, 1,
                   [amount |-> 0, mstart |-> Len(title), still |-> TRUE])
    IN  IF acc.still THEN << ProductMatch(id, acc.mstart, acc.amount) >>
        ELSE << >>

\* the candidate of the token fallback of Product.match_listing, after its
\* sanity check of line 287
TokenMatch(P, id, title) ==
    LET candidate == TokenCandidate(P, id, title)
    IN  IF /\ candidate # << >>
           /\ sanity_check(title, candidate[1].begin, candidate[1].length,
                           P.model, P.family)
        THEN candidate
        ELSE << >>

\* Product.match_listing for the prepared product P, known as id, against a
\* searchable title: a list holding the ProductMatch, empty for None
match_listing(P, id, title) ==
    LET match == HolisticMatch(P, id, title)
    IN  IF match # << >> THEN match
        ELSE IF P.token_matchers # << >> THEN TokenMatch(P, id, title)
        ELSE << >>

(***************************************************************************)
(* Manufacturer.prepare_regexes: the histogram and the ignorable segments. *)
(***************************************************************************)
MinCount == 10

\* P.model.replace('-', ' ').split()
SegmentsOf(model) == SplitWhitespace(ReplaceChar(model, "-", << " " >>))

\* histogram[seg] after the first loop over the models of a manufacturer:
\* each model adds one for its first and one for its last segment
HistogramCount(models, seg) ==
    Cardinality({k \in 1..Len(models) : SegmentsOf(models[k])[1] = seg})
    + Cardinality({k \in 1..Len(models) :
                      LET segs == SegmentsOf(models[k]) IN segs[Len(segs)] = seg})

HistogramKeys(models) ==
    UNION {LET segs == SegmentsOf(models[k]) IN {segs[1], segs[Len(segs)]}
           : k \in 1..Len(models)}

\* segments[0] raises IndexError for a model that holds no segment
HistogramRaises(models) ==
    \E k \in 1..Len(models) : SegmentsOf(models[k]) = << >>

\* ignorable_segments (len(self.products) / 3 is Python 2's integer division)
IgnorableSegments(models) ==
    {seg \in HistogramKeys(models) :
        /\ Len(seg) >= 2
        /\ HistogramCount(models, seg) > Len(models) \div 3
        /\ HistogramCount(models, seg) >= MinCount}

(***************************************************************************)
(* The records of the input files the behaviours read.                     *)
(***************************************************************************)
s_Canon ==
    << "C", "a", "n", "o", "n" >>

s_canon ==
    << "c", "a", "n", "o", "n" >>

s_SD600 ==
    << "S", "D", "6", "0", "0" >>

s_600 ==
    << "6", "0", "0" >>

s_PowerShot ==
    << "P", "o", "w", "e", "r", "S", "h", "o", "t" >>

s_Fujifilm ==
    << "F", "u", "j", "i", "f", "i", "l", "m" >>

s_FujiPhoto ==
    << "F", "u", "j", "i", " ", "P", "h", "o", "t", "o" >>

s_SD_600 ==
    << "S", "D", "-", "6", "0", "0" >>

s_Panasonic ==
    << "P", "a", "n", "a", "s", "o", "n", "i", "c" >>

s_DMC_FZ1 ==
    << "D", "M", "C", "-", "F", "Z", "1" >>

s_ZS3 ==
    << "Z", "S", "3" >>

s_canon_canada ==
    << "c", "a", "n", "o", "n", " ", "c", "a", "n", "a", "d", "a" >>

s_fuji ==
    << "f", "u", "j", "i" >>

s_sony ==
    << "s", "o", "n", "y" >>

s_panasonic ==
    << "p", "a", "n", "a", "s", "o", "n", "i", "c" >>

t_canon_sd600 ==
    << "c", "a", "n", "o", "n", " ", "p", "o", "w", "e", "r", "s", "h", "o", "t", " ", "s",
       "d", " ", "6", "0", "0", " ", "d", "i", "g", "i", "t", "a", "l", " ", "c", "a", "m",
       "e", "r", "a" >>

t_fuji_sd600 ==
    << "f", "u", "j", "i", " ", "s", "d", "-", "6", "0", "0", " ", "(", "b", "l", "a", "c",
       "k", ")" >>

t_battery ==
    << "b", "a", "t", "t", "e", "r", "y", " ", "f", "o", "r", " ", "c", "a", "n", "o", "n",
       " ", "s", "d", "6", "0", "0" >>

t_canon_plain ==
    << "c", "a", "n", "o", "n", " ", "s", "d", "6", "0", "0" >>

t_lumix_fz1 ==
    << "p", "a", "n", "a", "s", "o", "n", "i", "c", " ", "l", "u", "m", "i", "x", " ", "f",
       "z", "1", " ", "1", "2", "m", "p" >>

t_lumix_dmc ==
    << "p", "a", "n", "a", "s", "o", "n", "i", "c", " ", "d", "m", "c", " ", "z", "s", "-",
       "3" >>

\* the lines of the products file
ProductLine(name, manufacturer, model, family) ==
    [product_name |-> name, manufacturer |-> manufacturer,
     model |-> model, family |-> family]

\* the lines of the listings file (price and currency are never read again)
ListingLine(title, manufacturer) ==
    [title |-> title, manufacturer |-> manufacturer]

pj_canon_sd600 == ProductLine("Canon PowerShot SD600", s_Canon, s_SD600, << >>)

pj_canon_600 == ProductLine("Canon PowerShot 600", s_Canon, s_600, s_PowerShot)

pj_fujifilm_sd600 == ProductLine("Fujifilm SD600", s_Fujifilm, s_SD600, << >>)

pj_fujiphoto_sd600 == ProductLine("Fuji Photo SD-600", s_FujiPhoto, s_SD_600, << >>)

pj_dmc_fz1 == ProductLine("Panasonic Lumix DMC-FZ1", s_Panasonic, s_DMC_FZ1, << >>)

pj_zs3 == ProductLine("Panasonic ZS3", s_Panasonic, s_ZS3, << >>)

lj_canon_canada == ListingLine(t_canon_sd600, s_canon_canada)

lj_fuji == ListingLine(t_fuji_sd600, s_fuji)

lj_sony == ListingLine(t_canon_plain, s_sony)

lj_battery == ListingLine(t_battery, s_canon)

lj_lumix_fz1 == ListingLine(t_lumix_fz1, s_panasonic)

lj_lumix_dmc == ListingLine(t_lumix_dmc, s_panasonic)

\* all sequences over S of length at most n
SeqsUpTo(S, n) == UNION {[1..k -> S] : k \in 0..n}

\* those that hold no element twice
DistinctSeqsUpTo(S, n) ==
    {f \in SeqsUpTo(S, n) : \A i, j \in 1..Len(f) : i # j => f[i] # f[j]}

\* n copies of x
Repeat(x, n) == [k \in 1..n |-> x]

\* the orders a set can be iterated in
Orderings(S) ==
    {f \in [1..Cardinality(S) -> S] :
        \A i, j \in 1..Cardinality(S) : i # j => f[i] # f[j]}

MaxProducts == 2

MaxListings == 2

MaxBulkA == 10

MaxBulkB == 5

ProductPool ==
    {pj_canon_sd600, pj_canon_600, pj_fujifilm_sd600, pj_fujiphoto_sd600}

ListingPool ==
    {lj_canon_canada, lj_fuji, lj_sony, lj_battery}

\* products files of one manufacturer, large enough for its histogram to
\* reach the thresholds
BulkProductFiles ==
    {Repeat(pj_dmc_fz1, a) \o Repeat(pj_zs3, b) :
        a \in 0..MaxBulkA, b \in 0..MaxBulkB}

BulkListingFiles ==
    {<< >>, << lj_lumix_fz1 >>, << lj_lumix_dmc >>, << lj_lumix_dmc, lj_sony >>}

(***************************************************************************)
(* The state of a run of main().                                           *)
(***************************************************************************)
VARIABLES
    products_file,          \* the lines of args.products not read yet
    listings_file,          \* the lines of args.listings not read yet
    products,               \* the list `products`: Product objects
    manufacturers,          \* the dict `manufacturers`: name -> Manufacturer
    listings,               \* the list `listings`: Listing objects
    pc,                     \* where main() is
    order,                  \* the order the dict is iterated in
    prepared_count,         \* manufacturers the loop of line 149 has visited
    n,                      \* listings the loop of line 154 has visited
    unknown_manufacturer,   \* listing indices, as appended
    unknown_model,          \* listing indices, as appended
    manufacturers_to_search,\* of the last listing visited
    matches,                \* of the last listing visited
    call,                   \* the arguments of a function called on its own
    ret                     \* and what it returned

vars ==
    << products_file, listings_file, products, manufacturers, listings, pc,
       order, prepared_count, n, unknown_manufacturer, unknown_model,
       manufacturers_to_search, matches, call, ret >>

mainVars ==
    << products_file, listings_file, products, manufacturers, listings, pc,
       order, prepared_count, n, unknown_manufacturer, unknown_model,
       manufacturers_to_search, matches >>

\* Product.__init__
Product(pj) ==
    [product_name |-> pj.product_name,
     manufacturer |-> Lower(pj.manufacturer),
     model |-> Lower(pj.model),
     family |-> Lower(pj.family),
     listings |-> << >>,
     prepared |-> FALSE,
     ignorable |-> {},
     matcher |-> [re |-> << >>, required |-> TRUE],
     token_matchers |-> << >>]

\* Listing.__init__
Listing(lj) ==
    [title |-> Lower(lj.title),
     manufacturer |-> Lower(lj.manufacturer),
     searchable_title |-> make_searchable_title(Lower(lj.title))]

\* Manufacturer.add_product, for the product known as id
add_product(M, id, family) ==
    [M EXCEPT
        !.products = Append(@, id),
        !.known_families =
            IF family = << >> THEN @
            ELSE IF Contains(<< "-" >>, family)
            THEN @ \cup {family, ReplaceChar(family, "-", << >>)}
            ELSE @ \cup {family}]

\* Manufacturer.__init__
Manufacturer(name, id, family) ==
    add_product([name |-> name, products |-> << >>, known_families |-> {}],
                id, family)

\* Product.prepare_matchers
prepare_matchers(P, ignorable) ==
    [P EXCEPT
        !.prepared = TRUE,
        !.ignorable = ignorable,
        !.matcher = create_holistic_regex(P.model, P.family, ignorable),
        !.token_matchers =
            create_token_regexes(P.model, P.family, ignorable, TRUE)]

\* the models of the products ids, in that order
ModelsOf(prods, ids) == [k \in 1..Len(ids) |-> prods[ids[k]].model]

\* a slip of lines 328-364: each product prepared as soon as it is counted,
\* with the histogram of the products up to it
IgnorableSoFar(prods, ids, k) ==
    IgnorableSegments(ModelsOf(prods, SubSeq(ids, 1, k)))

\* the ignorable segments Manufacturer.prepare_regexes hands to the k-th of
\* its products ids: those of the histogram over all of ids
IgnorableFor(prods, ids, k) == IgnorableSegments(ModelsOf(prods, ids))

\* Manufacturer.prepare_regexes on the products ids of the list prods: the
\* list afterwards
prepare_regexes(prods, ids) ==
    [p \in 1..Len(prods) |->
        IF \E k \in 1..Len(ids) : ids[k] = p
        THEN prepare_matchers(prods[p],
                 IgnorableFor(prods, ids,
                     CHOOSE k \in 1..Len(ids) : ids[k] = p))
        ELSE prods[p]]

(***************************************************************************)
(* find_manufacturers_for_listing                                          *)
(***************************************************************************)
RECURSIVE Tier2ScanSwapped(_, _, _, _)
\* a slip of lines 117-122: the two containment tests the other way round
Tier2ScanSwapped(manufacturer, ord, k, acc) ==
    IF k > Len(ord) THEN acc
    ELSE IF manufacturer # << >> /\ Contains(manufacturer, ord[k]) THEN {ord[k]}
    ELSE IF Contains(ord[k], manufacturer)
    THEN Tier2ScanSwapped(manufacturer, ord, k + 1, acc \cup {ord[k]})
    ELSE Tier2ScanSwapped(manufacturer, ord, k + 1, acc)

RECURSIVE Tier2Scan(_, _, _, _)
\* the loop of lines 117-122 from the k-th manufacturer of ord on; acc is
\* manufacturers_to_search so far
Tier2Scan(manufacturer, ord, k, acc) ==
    IF k > Len(ord) THEN acc
    ELSE IF Contains(ord[k], manufacturer) THEN {ord[k]}
    ELSE IF manufacturer # << >> /\ Contains(manufacturer, ord[k])
    THEN Tier2Scan(manufacturer, ord, k + 1, acc \cup {ord[k]})
    ELSE Tier2Scan(manufacturer, ord, k + 1, acc)

\* ' '.join(L.searchable_title.split()[:3])
TitleStart(searchable_title) ==
    LET words == SplitWhitespace(searchable_title)
    IN  JoinSpace(IF Len(words) > 3 THEN SubSeq(words, 1, 3) ELSE words)

RECURSIVE Tier3Scan(_, _, _, _, _)
\* the loop of lines 128-134 from the k-th manufacturer of ord on.  Line 132
\* reads M.families: a Manufacturer has the attributes name, products and
\* known_families, and reading another raises AttributeError.
Tier3Scan(mfrs, title_start, ord, k, acc) ==
    IF k > Len(ord) THEN [found |-> acc, raised |-> FALSE]
    ELSE IF Contains(ord[k], title_start)
    THEN [found |-> {ord[k]}, raised |-> FALSE]
    ELSE IF "families" \notin DOMAIN mfrs[ord[k]]
    THEN [found |-> acc, raised |-> TRUE]
    ELSE Tier3Scan(mfrs, title_start, ord, k + 1,
             IF \E family \in mfrs[ord[k]].families :
                    Contains(family, title_start)
             THEN acc \cup {ord[k]} ELSE acc)

\* find_manufacturers_for_listing(L, manufacturers), the dict being iterated
\* in the order ord: the names of the manufacturers returned, the tier that
\* answered (0 when none did), and whether the call raised
find_manufacturers_for_listing(L, mfrs, ord) ==
    IF L.manufacturer \in DOMAIN mfrs
    THEN [found |-> {L.manufacturer}, tier |-> 1, raised |-> FALSE]
    ELSE LET second == Tier2Scan(L.manufacturer, ord, 1, {})
             third == Tier3Scan(mfrs, TitleStart(L.searchable_title), ord, 1, {})
         IN  IF second # {}
             THEN [found |-> second, tier |-> 2, raised |-> FALSE]
             ELSE [found |-> third.found,
                   tier |-> IF third.found # {} /\ ~third.raised THEN 3 ELSE 0,
                   raised |-> third.raised]

(***************************************************************************)
(* Manufacturer.find_matching_products and the choice of the best match.   *)
(***************************************************************************)
RECURSIVE MatchesOfProducts(_, _, _, _)
\* Manufacturer.find_matching_products: the matches of the products ids from
\* the k-th on, in that order
MatchesOfProducts(prods, ids, title, k) ==
    IF k > Len(ids) THEN << >>
    ELSE match_listing(prods[ids[k]], ids[k], title)
         \o MatchesOfProducts(prods, ids, title, k + 1)

find_matching_products(prods, M, L) ==
    MatchesOfProducts(prods, M.products, L.searchable_title, 1)

RECURSIVE CollectMatches(_, _, _, _, _)
\* the loop of lines 168-169 over the manufacturers named by search_order
CollectMatches(prods, mfrs, search_order, L, k) ==
    IF k > Len(search_order) THEN << >>
    ELSE find_matching_products(prods, mfrs[search_order[k]], L)
         \o CollectMatches(prods, mfrs, search_order, L, k + 1)

\* list.sort(key=...): the stable sort of seq by the keys keys[i] of seq[i]
StableSort(seq, keys) ==
    LET Rank(i) ==
            1 + Cardinality({j \in 1..Len(seq) :
                    keys[j] < keys[i] \/ (keys[j] = keys[i] /\ j < i)})
    IN  [r \in 1..Len(seq) |-> seq[CHOOSE i \in 1..Len(seq) : Rank(i) = r]]

\* matches.sort(key=lambda m: m.length, reverse=True)
SortByLengthDesc(ms) == StableSort(ms, [i \in 1..Len(ms) |-> 0 - ms[i].length])

\* matches.sort(key=lambda m: m.begin)
SortByBegin(ms) == StableSort(ms, [i \in 1..Len(ms) |-> ms[i].begin])

\* a slip of lines 181-182: the two sorts in the other order
BestMatchSortsSwapped(ms) ==
    IF Len(ms) = 1 THEN ms[1]
    ELSE SortByLengthDesc(SortByBegin(ms))[1]

\* best_match of lines 175-183, for a non-empty list of matches
BestMatch(ms) ==
    IF Len(ms) = 1 THEN ms[1]
    ELSE SortByBegin(SortByLengthDesc(ms))[1]

\* Product.associate_listing on the product the match names
associate_listing(prods, best_match, listing) ==
    [prods EXCEPT ![best_match.product].listings = Append(@, listing)]

\* a slip of lines 175-185: every match's product gets the listing
AssociateEvery(prods, ms, listing) ==
    [p \in 1..Len(prods) |->
        IF \E k \in 1..Len(ms) : ms[k].product = p
        THEN [prods[p] EXCEPT !.listings = Append(@, listing)]
        ELSE prods[p]]

\* lines 175-185: the best match's product gets the listing
AssociateBest(prods, ms, listing) ==
    associate_listing(prods, BestMatch(ms), listing)

(***************************************************************************)
(* main(): read_products_data, read_listings_data and                      *)
(* match_listings_to_products, one action per turn of each loop.           *)
(***************************************************************************)
Idle == call = << >> /\ ret = << >>

InitMain(product_files, listing_files) ==
    /\ products_file \in product_files
    /\ listings_file \in listing_files
    /\ products = << >>
    /\ manufacturers = << >>
    /\ listings = << >>
    /\ pc = "read_products"
    /\ order = << >>
    /\ prepared_count = 0
    /\ n = 0
    /\ unknown_manufacturer = << >>
    /\ unknown_model = << >>
    /\ manufacturers_to_search = {}
    /\ matches = << >>
    /\ Idle

\* one turn of the loop of read_products_data
ReadProduct ==
    /\ pc = "read_products"
    /\ products_file # << >>
    /\ LET P == Product(Head(products_file))
           id == Len(products) + 1
       IN  /\ products' = Append(products, P)
           /\ manufacturers' =
                IF P.manufacturer \in DOMAIN manufacturers
                THEN [manufacturers EXCEPT
                         ![P.manufacturer] = add_product(@, id, P.family)]
                ELSE (P.manufacturer :> Manufacturer(P.manufacturer, id, P.family))
                     @@ manufacturers
    /\ products_file' = Tail(products_file)
    /\ UNCHANGED << listings_file, listings, pc, order, prepared_count, n,
                    unknown_manufacturer, unknown_model,
                    manufacturers_to_search, matches, call, ret >>

\* read_products_data returns; args.products.close()
CloseProducts ==
    /\ pc = "read_products"
    /\ products_file = << >>
    /\ pc' = "read_listings"
    /\ UNCHANGED << products_file, listings_file, products, manufacturers,
                    listings, order, prepared_count, n, unknown_manufacturer,
                    unknown_model, manufacturers_to_search, matches, call, ret >>

\* one turn of the loop of read_listings_data
ReadListing ==
    /\ pc = "read_listings"
    /\ listings_file # << >>
    /\ listings' = Append(listings, Listing(Head(listings_file)))
    /\ listings_file' = Tail(listings_file)
    /\ UNCHANGED << products_file, products, manufacturers, pc, order,
                    prepared_count, n, unknown_manufacturer, unknown_model,
                    manufacturers_to_search, matches, call, ret >>

\* read_listings_data returns and match_listings_to_products is entered.  The
\* dict is not changed from here on, so every loop over it sees one order;
\* which one is the hash table's affair.
EnterMatch ==
    /\ pc = "read_listings"
    /\ listings_file = << >>
    /\ order' \in Orderings(DOMAIN manufacturers)
    /\ pc' = IF DOMAIN manufacturers = {} THEN "match" ELSE "prepare"
    /\ UNCHANGED << products_file, listings_file, products, manufacturers,
                    listings, prepared_count, n, unknown_manufacturer,
                    unknown_model, manufacturers_to_search, matches, call, ret >>

\* one turn of the loop of lines 149-150: M.prepare_regexes()
PrepareRegexes ==
    /\ pc = "prepare"
    /\ prepared_count < Len(order)
    /\ LET M == manufacturers[order[prepared_count + 1]]
       IN  IF HistogramRaises(ModelsOf(products, M.products))
           THEN /\ pc' = "error"
                /\ UNCHANGED << products, prepared_count >>
           ELSE /\ products' = prepare_regexes(products, M.products)
                /\ prepared_count' = prepared_count + 1
                /\ pc' = IF prepared_count + 1 = Len(order)
                         THEN "match" ELSE "prepare"
    /\ UNCHANGED << products_file, listings_file, manufacturers, listings,
                    order, n, unknown_manufacturer, unknown_model,
                    manufacturers_to_search, matches, call, ret >>

\* one turn of the loop of lines 154-185.  A set of manufacturers is iterated
\* in an order the hash table decides; the list tier 1 returns has one.
MatchListing ==
    /\ pc = "match"
    /\ n < Len(listings)
    /\ LET L == listings[n + 1]
           r == find_manufacturers_for_listing(L, manufacturers, order)
       IN  IF r.raised
           THEN /\ pc' = "error"
                /\ UNCHANGED << products, n, unknown_manufacturer,
                                unknown_model, manufacturers_to_search, matches >>
           ELSE IF r.found = {}
           THEN /\ unknown_manufacturer' = Append(unknown_manufacturer, n + 1)
                /\ manufacturers_to_search' = {}
                /\ matches' = << >>
                /\ n' = n + 1
                /\ UNCHANGED << products, unknown_model, pc >>
           ELSE \E search_order \in Orderings(r.found) :
                LET ms == CollectMatches(products, manufacturers,
                                         search_order, L, 1)
                IN  /\ manufacturers_to_search' = r.found
                    /\ matches' = ms
                    /\ n' = n + 1
                    /\ pc' = pc
                    /\ IF ms = << >>
                       THEN /\ unknown_model' = Append(unknown_model, n + 1)
                            /\ UNCHANGED << products, unknown_manufacturer >>
                       ELSE /\ products' = AssociateBest(products, ms, n + 1)
                            /\ UNCHANGED << unknown_manufacturer, unknown_model >>
    /\ UNCHANGED << products_file, listings_file, manufacturers, listings,
                    order, prepared_count, call, ret >>

\* match_listings_to_products returns
Return ==
    /\ pc = "match"
    /\ n = Len(listings)
    /\ pc' = "done"
    /\ UNCHANGED << products_file, listings_file, products, manufacturers,
                    listings, order, prepared_count, n, unknown_manufacturer,
                    unknown_model, manufacturers_to_search, matches, call, ret >>

Next ==
    \/ ReadProduct
    \/ CloseProducts
    \/ ReadListing
    \/ EnterMatch
    \/ PrepareRegexes
    \/ MatchListing
    \/ Return

\* Products files list each product once; listings files may repeat a line.
Init ==
    InitMain(DistinctSeqsUpTo(ProductPool, MaxProducts),
             SeqsUpTo(ListingPool, MaxListings))

Spec == Init /\ [][Next]_vars

InitBulk == InitMain(BulkProductFiles, BulkListingFiles)

SpecBulk == InitBulk /\ [][Next]_vars

(***************************************************************************)
(* Properties.                                                             *)
(***************************************************************************)
\* the places << p, k >> where listing l stands in a product's listings
PlacesOf(l) ==
    {pk \in (1..Len(products)) \X (1..Len(listings)) :
        /\ pk[2] <= Len(products[pk[1]].listings)
        /\ products[pk[1]].listings[pk[2]] = l}

\* C1: at every point of match_listings_to_products, every listing stands in
\* the listings of at most one product, and there at most once.
C1_AtMostOneProduct ==
    /\ \A p \in 1..Len(products) : Len(products[p].listings) <= Len(listings)
    /\ \A l \in 1..Len(listings) : Cardinality(PlacesOf(l)) <= 1

\* C1's case: the run is over, the last listing had candidates from two
\* manufacturers and stands in a product's listings.
C1_Witness ==
    /\ pc = "done"
    /\ Len(matches) >= 2
    /\ Cardinality(manufacturers_to_search) >= 2
    /\ PlacesOf(n) # {}

(***************************************************************************)
(* Calls of single functions: the arguments stand in call, the result in   *)
(* ret once the function has returned; main() is not running.              *)
(***************************************************************************)
InitCall(arguments) ==
    /\ products_file = << >>
    /\ listings_file = << >>
    /\ products = << >>
    /\ manufacturers = << >>
    /\ listings = << >>
    /\ pc = "call"
    /\ order = << >>
    /\ prepared_count = 0
    /\ n = 0
    /\ unknown_manufacturer = << >>
    /\ unknown_model = << >>
    /\ manufacturers_to_search = {}
    /\ matches = << >>
    /\ call \in arguments
    /\ ret = << >>

(***************************************************************************)
(* Ranking, lines 175-183 of match.py: the same candidates collected in    *)
(* two orders.                                                             *)
(***************************************************************************)
MaxCandidates == 3

\* the begin offsets and the lengths the candidates are drawn from
CandidateBegins == {0, 2, 4}

CandidateLengths == {3, 7}

\* candidates of distinct products (a product gives at most one match)
CandidateLists ==
    UNION {[1..k -> CandidateBegins \X CandidateLengths] :
              k \in 2..MaxCandidates}

CandidatesOf(pairs) ==
    [i \in 1..Len(pairs) |-> ProductMatch(i, pairs[i][1], pairs[i][2])]

Permuted(seq, q) == [i \in 1..Len(seq) |-> seq[q[i]]]

InitRank == InitCall(CandidateLists)

\* lines 175-183 on the candidates as collected and as collected otherwise
Rank ==
    /\ pc = "call"
    /\ ret = << >>
    /\ \E q \in Orderings(1..Len(call)) :
          ret' = << BestMatch(CandidatesOf(call)),
                    BestMatch(Permuted(CandidatesOf(call), q)), q >>
    /\ UNCHANGED << mainVars, call >>

NextRank == Rank

SpecRank == InitRank /\ [][NextRank]_vars

PairsDistinct(pairs) ==
    \A i, j \in 1..Len(pairs) : i # j => pairs[i] # pairs[j]

\* m is a candidate no other candidate beats: none begins earlier, and none
\* that begins at the same offset is longer
Unbeaten(m, ms) ==
    /\ \E i \in 1..Len(ms) : ms[i] = m
    /\ \A i \in 1..Len(ms) :
          /\ m.begin <= ms[i].begin
          /\ ms[i].begin = m.begin => m.length >= ms[i].length

\* C2: with two or more candidates the winner has the smallest begin and,
\* among the candidates with that begin, the greatest length; when the
\* candidates' (begin, length) pairs are distinct, collecting them in another
\* order gives the same winner.
C2_EarliestThenLongest ==
    ret # << >> /\ pc = "call" /\ Len(call) >= 2 =>
        /\ Unbeaten(ret[1], CandidatesOf(call))
        /\ Unbeaten(ret[2], CandidatesOf(call))
        /\ PairsDistinct(call) => ret[2] = ret[1]

\* C2's case: three candidates with distinct pairs, two of them at the
\* winner's begin, the winner not collected first, and another order tried.
C2_Witness ==
    /\ pc = "call"
    /\ ret # << >>
    /\ Len(call) = 3
    /\ PairsDistinct(call)
    /\ ret[1].product # 1
    /\ ret[3] # << 1, 2, 3 >>
    /\ \E i \in 1..3 : /\ i # ret[1].product
                       /\ call[i][1] = ret[1].begin
                       /\ call[i][2] < ret[1].length

(***************************************************************************)
(* Listings of no known manufacturer.                                      *)
(***************************************************************************)
KnownNames == DOMAIN manufacturers

KnownFamilies == UNION {manufacturers[name].known_families : name \in KnownNames}

\* listing l shares no substring relation with a known manufacturer name, and
\* the first three words of its searchable title hold no known manufacturer
\* name and no known family name
Unresolvable(l) ==
    LET L == listings[l]
        title_start == TitleStart(L.searchable_title)
    IN  /\ \A name \in KnownNames :
              /\ ~Contains(name, L.manufacturer)
              /\ ~Contains(L.manufacturer, name)
              /\ ~Contains(name, title_start)
        /\ \A family \in KnownFamilies : ~Contains(family, title_start)

\* the loop of lines 154-185 raised on the listing it was at
RaisedInMatching == pc = "error" /\ prepared_count = Len(order)

\* C3: with a non-empty catalog, processing a listing of no known
\* manufacturer raises no error, appends it to unknown_manufacturer and
\* associates it with no product.
C3_UnknownManufacturerBucket ==
    \A l \in 1..Len(listings) :
        KnownNames # {} /\ Unresolvable(l) =>
            /\ ~(RaisedInMatching /\ l = n + 1)
            /\ l <= n =>
                  /\ \E k \in 1..Len(unknown_manufacturer) :
                        unknown_manufacturer[k] = l
                  /\ PlacesOf(l) = {}

\* C3, as lines 126-134 have it: for such a listing the first manufacturer the loop
\* visits is not named in the title start, line 132 reads M.families, and the
\* AttributeError ends the run before the listing is put anywhere: the loop
\* never gets past such a listing and the run never completes.
C3_RaisesInstead ==
    \A l \in 1..Len(listings) :
        KnownNames # {} /\ Unresolvable(l) /\ pc \in {"match", "done", "error"} =>
            /\ l > n
            /\ pc # "done"

\* C3's case: the catalog is not empty and the matching loop has raised on a
\* listing of no known manufacturer.
C3_Witness ==
    /\ KnownNames # {}
    /\ RaisedInMatching
    /\ n < Len(listings)
    /\ Unresolvable(n + 1)
    /\ unknown_manufacturer = << >>

(***************************************************************************)
(* find_manufacturers_for_listing on its own: a listing's manufacturer     *)
(* string against a dict of known manufacturers, iterated in some order.   *)
(***************************************************************************)
MaxNames == 3

s_fuji_photo == << "f", "u", "j", "i", " ", "p", "h", "o", "t", "o" >>

s_fujifilm == Lower(s_Fujifilm)

s_fuji_photo_film == s_fuji_photo \o << " ", "f", "i", "l", "m" >>

NamePool == {s_canon, s_fuji, s_fujifilm, s_fuji_photo_film}

ManufacturerStrings == {<< >>, s_fuji, s_fuji_photo, s_canon_canada, s_sony}

\* the orders in which a dict of up to MaxNames of the names is iterated
DictOrders ==
    UNION {Orderings(S) : S \in {T \in SUBSET NamePool : Cardinality(T) <= MaxNames}}

\* a dict of manufacturers of those names, none with a family
DictOf(ord) ==
    [name \in {ord[k] : k \in 1..Len(ord)} |->
        [name |-> name, products |-> << >>, known_families |-> {}]]

InitResolve == InitCall(ManufacturerStrings \X DictOrders)

\* find_manufacturers_for_listing(L, manufacturers) for a listing titled
\* 'canon sd600'
Resolve ==
    /\ pc = "call"
    /\ ret = << >>
    /\ ret' = << find_manufacturers_for_listing(
                    Listing(ListingLine(t_canon_plain, call[1])),
                    DictOf(call[2]), call[2]) >>
    /\ UNCHANGED << mainVars, call >>

NextResolve == Resolve

SpecResolve == InitResolve /\ [][NextResolve]_vars

\* the names of the dict of the call
CallNames == {call[2][k] : k \in 1..Len(call[2])}

\* the known names that occur in the listing's manufacturer string
NamesInListing == {name \in CallNames : Contains(name, call[1])}

\* the known names in which the listing's (non-empty) manufacturer string occurs
NamesAroundListing ==
    {name \in CallNames : call[1] # << >> /\ Contains(call[1], name)}

\* C4 as stated: without an exact match, a known name that contains the
\* listing's manufacturer string makes the result exactly that one
\* manufacturer; otherwise the known names the listing's string contains
\* accumulate.
C4_AsStated ==
    ret # << >> /\ pc = "call" /\ call[1] \notin CallNames /\ ~ret[1].raised =>
        IF NamesAroundListing # {}
        THEN \E name \in NamesAroundListing : ret[1].found = {name}
        ELSE NamesInListing # {} => ret[1].found = NamesInListing

\* C4 with the directions the code has: without an exact match, the first
\* known name in iteration order that occurs in the listing's manufacturer
\* string is the whole result and ends the scan; when there is none, the
\* result of tier 2 is every known name in which the listing's non-empty
\* manufacturer string occurs, however many.
C4_Tier2Directions ==
    ret # << >> /\ pc = "call" /\ call[1] \notin CallNames =>
        IF NamesInListing # {}
        THEN LET first == CHOOSE k \in 1..Len(call[2]) :
                              /\ call[2][k] \in NamesInListing
                              /\ \A j \in 1..(k - 1) : call[2][j] \notin NamesInListing
             IN  /\ ret[1].found = {call[2][first]}
                 /\ ret[1].tier = 2
                 /\ ~ret[1].raised
        ELSE IF NamesAroundListing # {}
        THEN /\ ret[1].found = NamesAroundListing
             /\ ret[1].tier = 2
             /\ ~ret[1].raised
        ELSE ret[1].tier # 2

\* C4's case: tier 2 answered with two manufacturers whose names hold the
\* listing's manufacturer string.
C4_Witness ==
    /\ pc = "call"
    /\ ret # << >>
    /\ call[1] \notin CallNames
    /\ ret[1].tier = 2
    /\ Cardinality(ret[1].found) = 2
    /\ ret[1].found = NamesAroundListing

(***************************************************************************)
(* Ignorable segments.                                                     *)
(***************************************************************************)
\* the products of the manufacturer of product p
Siblings(p) ==
    {q \in 1..Len(products) : products[q].manufacturer = products[p].manufacturer}

\* those of them whose model has seg as its first or its last segment
SiblingsWith(p, seg) ==
    {q \in Siblings(p) :
        LET segs == SegmentsOf(products[q].model)
        IN  segs # << >> /\ seg \in {segs[1], segs[Len(segs)]}}

\* how often seg stands first or last in the models of the manufacturer of p
EndOccurrences(p, seg) ==
    Cardinality({q \in Siblings(p) :
        LET segs == SegmentsOf(products[q].model)
        IN  segs # << >> /\ segs[1] = seg})
    + Cardinality({q \in Siblings(p) :
        LET segs == SegmentsOf(products[q].model)
        IN  segs # << >> /\ segs[Len(segs)] = seg})

EndSegments(p) ==
    UNION {LET segs == SegmentsOf(products[q].model)
           IN  IF segs = << >> THEN {} ELSE {segs[1], segs[Len(segs)]}
           : q \in Siblings(p)}

\* C5: the segments prepare_regexes makes ignorable for a product are exactly
\* those of at least 2 characters that are the first or last token of the
\* model of strictly more than one third of the manufacturer's products and
\* occur at least 10 times; a segment of exactly one third of the products is
\* not among them.
C5_IgnorableThreshold ==
    \A p \in 1..Len(products) :
        products[p].prepared =>
            \A seg \in EndSegments(p) :
                seg \in products[p].ignorable <=>
                    /\ Len(seg) >= 2
                    /\ 3 * Cardinality(SiblingsWith(p, seg)) > Cardinality(Siblings(p))
                    /\ EndOccurrences(p, seg) >= MinCount

\* C5's failing case: a segment that is the whole model of exactly one third
\* of the manufacturer's products has been made ignorable.
C5_Witness ==
    \E p \in 1..Len(products) :
        /\ products[p].prepared
        /\ \E seg \in products[p].ignorable :
              3 * Cardinality(SiblingsWith(p, seg)) = Cardinality(Siblings(p))

(***************************************************************************)
(* Listing.make_searchable_title on its own, applied to a title and then   *)
(* to its own result.                                                      *)
(***************************************************************************)
MaxChunks == 3

\* what follows the filler of a title
Chunks ==
    { << " " >>, << "f", "o", "r" >>, << "f", "o", "r", "m", "a", "t" >>,
      << "p", "o", "u", "r" >>, << "p", "o", "u", "r", "s" >>,
      << "f", "u:", "r" >>, << "(" >>, << ")" >> }

\* fillers that put the following chunks before, at and across the cut
FillerLengths == {0} \cup ((TitleLimit - 6)..(TitleLimit - 4))

RECURSIVE Flatten(_)
Flatten(parts) ==
    IF parts = << >> THEN << >> ELSE Head(parts) \o Flatten(Tail(parts))

Titles ==
    {Repeat("a", k) \o Flatten(parts) :
        k \in FillerLengths, parts \in SeqsUpTo(Chunks, MaxChunks)}

InitTitle == InitCall(Titles)

\* make_searchable_title() on a listing whose title is call, then on one
\* whose title is the searchable_title just computed
MakeSearchableTitle ==
    /\ pc = "call"
    /\ Len(ret) < 2
    /\ ret' = Append(ret, make_searchable_title(
                              IF ret = << >> THEN call ELSE ret[Len(ret)]))
    /\ UNCHANGED << mainVars, call >>

NextTitle == MakeSearchableTitle

SpecTitle == InitTitle /\ [][NextTitle]_vars

\* the offsets in s at which a break word stands as a whole word
BreakWordStarts(s) ==
    {p \in 0..Len(s) : \E i \in 1..Len(BreakWords) :
        /\ OccursAt(BreakWords[i], s, p)
        /\ IsBoundary(s, p)
        /\ IsBoundary(s, p + Len(BreakWords[i]))}

\* the break word at offset p of s runs to the end of s
EndsAtBreakWord(s, p) ==
    \E i \in 1..Len(BreakWords) :
        OccursAt(BreakWords[i], s, p) /\ p + Len(BreakWords[i]) = Len(s)

\* C6 as stated: make_searchable_title of a searchable_title is that
\* searchable_title.
C6_Idempotent ==
    pc = "call" /\ Len(ret) = 2 => ret[2] = ret[1]

\* C6, amended: a searchable_title has at most TitleLimit characters, and
\* make_searchable_title leaves it unchanged exactly when it holds no break
\* word as a whole word.  It holds one only when the cut at TitleLimit fell
\* inside a word of the title that begins with the break word: the break
\* word then ends the searchable_title, and the second application cuts it
\* off.
C6_IdempotentUnlessCutBreakWord ==
    pc = "call" /\ Len(ret) = 2 =>
        /\ Len(ret[1]) <= TitleLimit
        /\ ret[2] = ret[1] <=> BreakWordStarts(ret[1]) = {}
        /\ \A p \in BreakWordStarts(ret[1]) :
              /\ EndsAtBreakWord(ret[1], p)
              /\ Len(ret[1]) = TitleLimit
              /\ Len(call) > TitleLimit
              /\ IsWordChar(call[TitleLimit + 1])
              /\ ret[2] = Slice(ret[1], 0, p)

\* C6's case: the title is longer than TitleLimit, the cut fell inside a
\* word inside a parenthesized span, and both applications have run.
C6_Witness ==
    /\ pc = "call"
    /\ Len(ret) = 2
    /\ Len(call) > TitleLimit
    /\ IsWordChar(call[TitleLimit]) /\ IsWordChar(call[TitleLimit + 1])
    /\ ret[2] = ret[1]
    /\ \E p \in 0..(TitleLimit - 1), q \in TitleLimit..(Len(call) - 1) :
          call[p + 1] = "(" /\ call[q + 1] = ")" /\ ret[1][p + 1] = " "

(***************************************************************************)
(* ProductMatch.sanity_check on its own: a candidate of a product in a     *)
(* listing's searchable title.                                             *)
(***************************************************************************)
MaxSanityBegin == 4

MaxSanityLength == 4

s_ixus == << "i", "x", "u", "s" >>

SanityTitles ==
    { << "s", "d", " ", "6", "0", "0", " ", "x" >>,
      << " ", "7", " ", "a", "1", "2", " ", "b" >>,
      << "x", "1", "2", "3", "4", " ", "\t", "9" >> }

SanityModels ==
    { s_SD600, s_600, << " ", "7", " " >>, << "1", "2", "3", "4" >> }

InitSanity ==
    InitCall(SanityTitles \X (0..MaxSanityBegin) \X (0..MaxSanityLength)
                 \X SanityModels \X {<< >>, s_ixus})

\* ProductMatch(product, listing, begin, length).sanity_check(): << >> for
\* None, the match in a sequence otherwise
SanityCheck ==
    /\ pc = "call"
    /\ ret = << >>
    /\ ret' = << IF sanity_check(call[1], call[2], call[3], call[4], call[5])
                 THEN << ProductMatch(1, call[2], call[3]) >>
                 ELSE << >> >>
    /\ UNCHANGED << mainVars, call >>

NextSanity == SanityCheck

SpecSanity == InitSanity /\ [][NextSanity]_vars

\* s is one to three digits, next to each other, with nothing but whitespace
\* around them
BareShortNumber(s) ==
    LET digits == {k \in 1..Len(s) : IsDigit(s[k])}
        blanks == {k \in 1..Len(s) : IsSpace(s[k])}
    IN  /\ digits \cup blanks = 1..Len(s)
        /\ Cardinality(digits) \in 1..3
        /\ \A j, k \in digits : \A i \in j..k : i \in digits

\* the text of the title the candidate of the call covers
CandidateText ==
    [k \in 1..(Min({Len(call[1]), call[2] + call[3]}) - call[2]) |->
        call[1][call[2] + k]]

\* C7: sanity_check returns None for a candidate of length below 2, and for
\* one whose text is a bare short number unless the product's model is a
\* bare short number and the product has no family; it returns every other
\* candidate as it was.
C7_SanityCheck ==
    pc = "call" /\ ret # << >> /\ Len(call) = 5 =>
        LET rejected ==
                \/ call[3] < 2
                \/ /\ BareShortNumber(CandidateText)
                   /\ ~(BareShortNumber(call[4]) /\ call[5] = << >>)
        IN  ret[1] = IF rejected THEN << >>
                     ELSE << ProductMatch(1, call[2], call[3]) >>

\* C7's case: a candidate whose text is a bare short number was returned,
\* the product's model being a bare short number and its family missing.
C7_Witness ==
    /\ pc = "call"
    /\ ret # << >>
    /\ Len(call) = 5
    /\ BareShortNumber(CandidateText)
    /\ Len(CandidateText) = 3
    /\ BareShortNumber(call[4])
    /\ call[5] = << >>
    /\ ret[1] # << >>

(***************************************************************************)
(* The scenario of one Canon product and one listing of 'canon canada'.    *)
(***************************************************************************)
s_sd_600 == << "s", "d", " ", "6", "0", "0" >>

\* main() has read the product 'Canon PowerShot SD600' and the listing
\* 'canon powershot sd 600 digital camera' of 'canon canada', and nothing else
CanonScenario ==
    /\ products_file = << >> /\ listings_file = << >>
    /\ Len(products) = 1
    /\ products[1].product_name = "Canon PowerShot SD600"
    /\ products[1].manufacturer = s_canon
    /\ products[1].model = Lower(s_SD600)
    /\ products[1].family = << >>
    /\ listings = << Listing(lj_canon_canada) >>

\* C8: in that scenario the run ends without error; the listing's
\* manufacturer is no known name but holds the known name 'canon' (tier 2),
\* which is the one searched; the holistic pattern finds 'sd 600' in the
\* searchable title, that is the one match, the listing stands in the
\* product's listings and in neither unknown_manufacturer nor unknown_model.
C8_CanonCanada ==
    CanonScenario =>
        /\ pc # "error"
        /\ pc = "done" =>
              /\ listings[1].manufacturer \notin DOMAIN manufacturers
              /\ Contains(s_canon, listings[1].manufacturer)
              /\ manufacturers_to_search = {s_canon}
              /\ \E b \in 0..Len(listings[1].searchable_title) :
                    /\ Slice(listings[1].searchable_title, b, b + 6) = s_sd_600
                    /\ Search(products[1].matcher.re,
                              listings[1].searchable_title) = << b, b + 6 >>
                    /\ matches = << ProductMatch(1, b, 6) >>
              /\ products[1].listings = << 1 >>
              /\ unknown_manufacturer = << >>
              /\ unknown_model = << >>

\* C8's case: the scenario has run to its end.
C8_Witness ==
    /\ CanonScenario
    /\ pc = "done"
    /\ n = 1
    /\ PlacesOf(1) = {<< 1, 1 >>}

(***************************************************************************)
(* The holistic matcher of the product 'DMC-GF3' against titles that hold  *)
(* the model once, in some spelling, with something before and after it.   *)
(***************************************************************************)
s_DMC_GF3 == << "D", "M", "C", "-", "G", "F", "3" >>

pj_dmc_gf3 == ProductLine("Panasonic Lumix DMC-GF3", s_Panasonic, s_DMC_GF3, << >>)

ModelSpellings ==
    { << "d", "m", "c", " ", "g", "f", "3" >>,
      << "d", "m", "c", "g", "f", "3" >>,
      << "d", "m", "c", "-", "g", "f", "3" >>,
      << "D", "M", "C", " ", "G", "F", "3" >> }

TextsBefore ==
    { << >>, << "l", "u", "m", "i", "x", " " >>, << "n", "e", "w", ":", " " >>,
      << "x" >>, << "[" >>, << "9", " " >> }

TextsAfter ==
    { << >>, << " ", "k", "i", "t" >>, << "0" >>, << "5", " ", "x" >>, << "k" >>,
      << "-", "k" >>, << " ", "1", "4", "m", "m" >>, << "]" >> }

InitHolistic == InitCall(TextsBefore \X ModelSpellings \X TextsAfter)

\* Product.match_listing, lines 257-258: self._matcher.regex.search of the
\* searchable title of the listing titled call[1] + call[2] + call[3]
HolisticSearch ==
    /\ pc = "call"
    /\ ret = << >>
    /\ LET P == prepare_matchers(Product(pj_dmc_gf3), {})
           L == Listing(ListingLine(call[1] \o call[2] \o call[3], s_Panasonic))
       IN  ret' = << Search(P.matcher.re, L.searchable_title) >>
    /\ UNCHANGED << mainVars, call >>

NextHolistic == HolisticSearch

SpecHolistic == InitHolistic /\ [][NextHolistic]_vars

\* the model of the call stands in the title as a whole token
WholeToken ==
    /\ call[1] = << >> \/ ~IsWordChar(call[1][Len(call[1])])
    /\ call[3] = << >> \/ ~IsWordChar(call[3][1])

\* C9: the holistic pattern of model 'DMC-GF3' matches 'dmc gf3', 'dmcgf3'
\* and 'dmc-gf3' (the title being lowercased) wherever they stand as a whole
\* token, the match being that token; and it does not match when a digit
\* follows the model text directly.
C9_HolisticDmcGf3 ==
    pc = "call" /\ ret # << >> /\ Len(call) = 3 =>
        /\ WholeToken =>
              ret[1] = << Len(call[1]), Len(call[1]) + Len(call[2]) >>
        /\ call[3] # << >> /\ IsDigit(call[3][1]) => ret[1] = << -1, -1 >>

\* C9's case: the model without its dash stands after other text, before a
\* space, and has been found there.
C9_Witness ==
    /\ pc = "call"
    /\ ret # << >>
    /\ Len(call) = 3
    /\ Len(call[1]) > 1
    /\ Len(call[2]) = 6
    /\ Len(call[3]) > 1
    /\ WholeToken
    /\ ret[1][1] = Len(call[1])

(***************************************************************************)
(* Preparation before matching.                                            *)
(***************************************************************************)
\* the segments that pass line 353 when every product of the manufacturer
\* of p is counted
IgnorableOfAllSiblings(p) ==
    {seg \in EndSegments(p) :
        /\ Len(seg) >= 2
        /\ EndOccurrences(p, seg) > Cardinality(Siblings(p)) \div 3
        /\ EndOccurrences(p, seg) >= MinCount}

\* the matching loop has looked at a listing, or is about to
MatchingBegun == pc \in {"match", "done"} \/ n > 0

\* C10: once matching has begun every product has been through
\* prepare_matchers; and a product that has been through it got the
\* ignorable segments of the histogram of all products of its manufacturer,
\* the products file having been read to its end before.
C10_PreparedFromCompleteSet ==
    /\ MatchingBegun => \A p \in 1..Len(products) : products[p].prepared
    /\ \A p \in 1..Len(products) :
          products[p].prepared =>
              /\ products_file = << >>
              /\ products[p].ignorable = IgnorableOfAllSiblings(p)
              /\ products[p].matcher =
                    create_holistic_regex(products[p].model, products[p].family,
                                          IgnorableOfAllSiblings(p))

\* C10's case: a manufacturer has ignorable segments though its first
\* MinCount products alone would give fewer, and a listing has been matched
\* to one of its products.
C10_Witness ==
    /\ pc = "done"
    /\ n >= 1
    /\ matches # << >>
    /\ Len(products) > MinCount
    /\ products[1].ignorable # {}
    /\ products[1].ignorable #
          IgnorableSegments(ModelsOf(products, [k \in 1..MinCount |-> k]))

(***************************************************************************)
(* The searchable title in closed form.                                    *)
(***************************************************************************)
\* where the blanked title s is cut: the smallest offset at which a break
\* word stands as a whole word, the length of s when none does
EarliestBreak(s) ==
    IF BreakWordStarts(s) = {} THEN Len(s)
    ELSE CHOOSE p \in BreakWordStarts(s) : \A q \in BreakWordStarts(s) : p <= q

\* C11: searchable_title is the first TitleLimit characters of the title with
\* its parenthesized spans blanked, cut at the earliest whole-word break word
\* of that blanked string (whichever of the three words it is); it is never
\* longer than TitleLimit.
C11_CutAtEarliestBreakWord ==
    pc = "call" /\ Len(ret) >= 1 =>
        LET blanked == BlankParens(call)
            cut == EarliestBreak(blanked)
        IN  /\ Len(blanked) = Len(call)
            /\ Len(ret[1]) = Min({cut, TitleLimit})
            /\ \A k \in 1..Len(ret[1]) : ret[1][k] = blanked[k]

\* C11's case: the blanked title holds two different break words before
\* TitleLimit, the one the loop looks for later standing first, and the
\* searchable title ends where that one starts.
C11_Witness ==
    /\ pc = "call"
    /\ Len(ret) >= 1
    /\ \E p, q \in BreakWordStarts(BlankParens(call)) :
          /\ p < q /\ q < TitleLimit
          /\ OccursAt(BreakWords[1], call, q)
          /\ ~OccursAt(BreakWords[1], call, p)
          /\ Len(ret[1]) = p

(***************************************************************************)
(* Product.match_listing on its own: one prepared product against one      *)
(* listing.                                                                *)
(***************************************************************************)
\* a product line and the ignorable segments its manufacturer found
Prepared(model, family, ignorable) ==
    [pj |-> ProductLine("p", s_Canon, model, family), ignorable |-> ignorable]

m_sd600_is ==
    Prepared(<<"S","D","6","0","0"," ","I","S">>,
             <<>>,
             {})

m_powershot_sd600 ==
    Prepared(<<"P","o","w","e","r","S","h","o","t"," ","S","D","6","0","0">>,
             <<"P","o","w","e","r","S","h","o","t">>,
             {})

m_ixus ==
    Prepared(<<"I","X","U","S">>,
             <<"D","i","g","i","t","a","l"," ","I","X","U","S">>,
             {})

m_dmc_fz1_ign ==
    Prepared(<<"D","M","C","-","F","Z","1">>,
             <<>>,
             {<<"d","m","c">>, <<"f","z","1">>})

m_dmc_fz1 ==
    Prepared(<<"D","M","C","-","F","Z","1">>,
             <<>>,
             {})

m_a_200 ==
    Prepared(<<"A","-","2","0","0">>,
             <<>>,
             {})

m_alpha_nex ==
    Prepared(<<"A","l","p","h","a"," ","N","E","X">>,
             <<>>,
             {})

m_dsc_w310_hx ==
    Prepared(<<"D","S","C","-","W","3","1","0">>,
             <<"H","X">>,
             {})

m_dsc_w310 ==
    Prepared(<<"D","S","C","-","W","3","1","0">>,
             <<>>,
             {})

m_nex_5_x ==
    Prepared(<<"N","E","X","_","5"," ","X">>,
             <<>>,
             {})

m_eos_5d_mark ==
    Prepared(<<"E","O","S","-","5","D"," ","M","a","r","k">>,
             <<>>,
             {})

MatchProducts ==
    { m_eos_5d_mark,
      m_sd600_is,
      m_powershot_sd600,
      m_ixus,
      m_dmc_fz1_ign,
      m_dmc_fz1,
      m_a_200,
      m_alpha_nex,
      m_dsc_w310_hx,
      m_dsc_w310,
      m_nex_5_x }

MatchTitles ==
    { <<"d","m","c"," ","c","a","m","e","r","a"," ","f","z","1">>,
      <<"i","s"," ","s","d","6","0","0">>,
      <<"s","d","6","0","0"," ","p","o","w","e","r","s","h","o","t">>,
      <<"p","o","w","e","r","s","h","o","t"," ","s","d"," ","6","0","0"," ","i","s">>,
      <<"d","i","g","i","t","a","l"," ","c","a","m","e","r","a"," ","b","a","g">>,
      <<"d","i","g","i","t","a","l"," ","i","x","u","s"," ","1","0","0">>,
      <<"l","u","m","i","x"," ","d","m","c"," ","c","a","m","e","r","a">>,
      <<"l","u","m","i","x"," ","f","z","1"," ","d","m","c">>,
      <<"c","a","n","o","n"," ","a","-","2","0","0">>,
      <<"a"," ","2","0","0">>,
      <<"n","e","x"," ","a","l","p","h","a">>,
      <<"n","e","x"," ","l","e","n","s">>,
      <<"w","3","1","0"," ","d","s","c"," ","h","x">>,
      <<"c","a","m","e","r","a">>,
      <<"n","e","x","_","5"," ","x">>,
      <<"x"," ","n","e","x"," ","5">> }
InitMatch == InitCall(MatchProducts \X MatchTitles)

\* P.match_listing(L) for the product call[1], prepared, and the listing
\* titled call[2]: the product, the searchable title, the ProductMatch built
\* at line 286 (in a list, empty when that line is not reached) and the
\* value returned (in a list, empty for None)
MatchListingCall ==
    /\ pc = "call"
    /\ ret = << >>
    /\ LET P == prepare_matchers(Product(call[1].pj), call[1].ignorable)
           L == Listing(ListingLine(call[2], s_Canon))
           title == L.searchable_title
           holistic == HolisticMatch(P, 1, title)
       IN  ret' = << [product |-> P,
                      title |-> title,
                      submitted |-> IF holistic = << >> /\ P.token_matchers # << >>
                                    THEN TokenCandidate(P, 1, title) ELSE << >>,
                      fallback |-> holistic = << >> /\ P.token_matchers # << >>,
                      returned |-> match_listing(P, 1, title)] >>
    /\ UNCHANGED << mainVars, call >>

NextMatch == MatchListingCall

SpecMatch == InitMatch /\ [][NextMatch]_vars

\* the span the k-th token pattern of the product of the call finds in the
\* searchable title, << -1, -1 >> when it finds none
TokenHit(k) == Search(ret[1].product.token_matchers[k].re, ret[1].title)

TokenCount == Len(ret[1].product.token_matchers)

\* the token patterns that find a hit
HitTokens == {k \in 1..TokenCount : TokenHit(k)[1] # -1}

RequiredTokens == {k \in 1..TokenCount : ret[1].product.token_matchers[k].required}

RECURSIVE HitLengthsUpTo(_)
\* the lengths of the hits of the first k token patterns, added up
HitLengthsUpTo(k) ==
    IF k = 0 THEN 0
    ELSE HitLengthsUpTo(k - 1)
         + (IF k \in HitTokens THEN TokenHit(k)[2] - TokenHit(k)[1] ELSE 0)

\* the holistic pattern finds nothing, or what it finds fails the sanity
\* check, and the product has token patterns
FallbackCase ==
    LET P == ret[1].product
        span == Search(P.matcher.re, ret[1].title)
    IN  /\ P.token_matchers # << >>
        /\ \/ span[1] = -1
           \/ ~sanity_check(ret[1].title, span[1], span[2] - span[1],
                            P.model, P.family)

\* C12: in the fallback case, a required token pattern without a hit means no
\* candidate; when every required token pattern has a hit, the candidate
\* handed to the sanity check begins at the smallest start of a hit and its
\* length is the sum of the lengths of all hits, required or not.
C12_TokenFallback ==
    pc = "call" /\ ret # << >> /\ FallbackCase =>
        IF RequiredTokens \subseteq HitTokens
        THEN /\ Len(ret[1].submitted) = 1
             /\ ret[1].submitted[1].length = HitLengthsUpTo(TokenCount)
             /\ \A k \in HitTokens : ret[1].submitted[1].begin <= TokenHit(k)[1]
             /\ HitTokens # {} =>
                   \E k \in HitTokens : ret[1].submitted[1].begin = TokenHit(k)[1]
             /\ ret[1].returned \in {<< >>, ret[1].submitted}
        ELSE ret[1].submitted = << >> /\ ret[1].returned = << >>

\* C12's case: the fallback ran, a required and an optional token pattern
\* both found a hit, the optional one first in the title, and the candidate
\* was returned.
C12_Witness ==
    /\ pc = "call"
    /\ ret # << >>
    /\ FallbackCase
    /\ RequiredTokens \subseteq HitTokens
    /\ \E k \in HitTokens \ RequiredTokens : \E j \in RequiredTokens :
          TokenHit(k)[1] < TokenHit(j)[1]
    /\ ret[1].returned # << >>

(***************************************************************************)
(* The token patterns of the product of the call.                          *)
(***************************************************************************)
\* tok is shorter than 3 characters or a bare 1-3 digit number
Detached(tok) == Len(tok) < 3 \/ BareShortNumber(tok)

\* the patterns of the tokens toks, none when there is just one token
PatternsOf(toks) ==
    IF Len(toks) = 1 THEN << >>
    ELSE [k \in 1..Len(toks) |->
            Compile(convert_model_to_regex_string(toks[k], {}, << >>))]

\* the patterns of the token matchers the product of the call was given
TokenPatterns ==
    [k \in 1..TokenCount |-> ret[1].product.token_matchers[k].re]

C14_RequiredHitBehindCandidate ==
    pc = "call" /\ ret # << >> /\ FallbackCase /\ ret[1].returned # << >> =>
        RequiredTokens \cap HitTokens # {}

\* C14's failing case: the product has token patterns, none of them
\* required, and the fallback returned a candidate made of hits of some of
\* them only.
C14_Witness ==
    /\ pc = "call"
    /\ ret # << >>
    /\ FallbackCase
    /\ RequiredTokens = {}
    /\ HitTokens # {}
    /\ HitTokens # 1..TokenCount
    /\ ret[1].returned = ret[1].submitted
    /\ ret[1].returned # << >>

\* C15: a candidate match_listing returns lies inside the searchable title:
\* begin >= 0, length >= 2 and begin + length <= len(searchable_title).
C15_SpanInsideTitle ==
    pc = "call" /\ ret # << >> /\ ret[1].returned # << >> =>
        LET m == ret[1].returned[1]
        IN  /\ m.begin >= 0
            /\ m.length >= 2
            /\ m.begin + m.length <= Len(ret[1].title)

\* C15, for what does hold: begin >= 0, length >= 2 and begin is an offset of
\* the searchable title; a candidate of the holistic pattern ends inside the
\* title, and so does one of the token fallback when no two hits overlap.
C15_BeginInsideTitle ==
    pc = "call" /\ ret # << >> /\ ret[1].returned # << >> =>
        LET m == ret[1].returned[1]
            apart == \A j, k \in HitTokens :
                        j # k => \/ TokenHit(j)[2] <= TokenHit(k)[1]
                                 \/ TokenHit(k)[2] <= TokenHit(j)[1]
        IN  /\ m.begin >= 0
            /\ m.length >= 2
            /\ m.begin < Len(ret[1].title)
            /\ ~FallbackCase \/ apart => m.begin + m.length <= Len(ret[1].title)

\* C15's failing case: the fallback returned a candidate that runs past the
\* end of the searchable title, two token patterns having hit the same text.
C15_Witness ==
    /\ pc = "call"
    /\ ret # << >>
    /\ FallbackCase
    /\ ret[1].returned # << >>
    /\ \E j, k \in HitTokens : j # k /\ TokenHit(j) = TokenHit(k)
    /\ ret[1].returned[1].begin + ret[1].returned[1].length > Len(ret[1].title)

=============================================================================
